---- MODULE Spec2Model ----
(***************************************************************************)
(* A model of lib-python/models.py: the half-plane index sets and the      *)
(* central-slice decoder of FTSliceDecoder, its phase-shift translation,   *)
(* the SO(3) reparameterisation and the encoder selection of the VAEs.     *)
(*                                                                         *)
(* Tensors are sequences.  A numpy/torch index p (0-based) is position     *)
(* p + 1 of the sequence; index arrays hold the 0-based values of the      *)
(* source.  One batch element is modelled: every operation of the source   *)
(* broadcasts over the leading dimensions.  Coordinates are integers: a    *)
(* lattice value v of the source is the integer v * D / 2 here, which      *)
(* keeps the sign of z and commutes with negation.                         *)
(***************************************************************************)
EXTENDS Integers, Sequences, FiniteSets, TLC

VARIABLES
    \* ---- FTSliceDecoder and its caller
    pc,          \* "new" | "constructed" | "ready"
    D,           \* self.D
    D2,          \* self.D2
    center,      \* self.center
    extra,       \* self.extra
    all_eval,    \* self.all_eval
    top,         \* self.top
    bottom_rev,  \* self.bottom_rev
    decoder,     \* self.decoder: the layers of the ResidLinearMLP
    lattice,     \* the caller's coordinate buffer handed to the decoder
    hist,        \* the calls made so far: op, argument before/after, result
    \* ---- FTSliceDecoder.translate
    tpc,         \* "idle" | "start" | "once" | "twice"
    coords,      \* wavevectors, in quarters
    img0,        \* the image before any translation
    img,         \* the image after the translations applied so far
    shifts,      \* the shifts applied so far
    \* ---- SO3reparameterize.sampleSO3
    spc,         \* "idle" | "start" | "sampled"
    training,    \* nn.Module.training
    z_mu,        \* argument z_mu
    z_std,       \* argument z_std
    rot_out,     \* first value returned
    w_out,       \* second value returned
    \* ---- HetOnlyVAE / VAE construction and encode
    cpc,         \* "idle" | "new" | "constructed" | "encoded" | "error"
    cls,         \* "HetOnlyVAE" | "VAE"
    encode_mode, \* the encode_mode argument
    nx,          \* image width = height
    batch,       \* images given to encode
    enc_rows     \* rows of the encoder's output

decVars == <<pc, D, D2, center, extra, all_eval, top, bottom_rev, decoder, lattice, hist>>
trVars == <<tpc, coords, img0, img, shifts>>
soVars == <<spc, training, z_mu, z_std, rot_out, w_out>>
cvVars == <<cpc, cls, encode_mode, nx, batch, enc_rows>>
vars == <<decVars, trVars, soVars, cvVars>>

\* ------------------------------------------------------------------ bounds
MaxD2 == 4
MaxCalls == 2
MaxC == 2
NumSeeds == 2
MaxShift == 2
MaxQ == 1
MaxStd == 2
MaxEps == 1
MaxBatch == 4
MaxEncodeLayers == 3

\* ------------------------------------------------------------------ numpy

Max(a, b) == IF a >= b THEN a ELSE b

\* ceil(a / b) for b > 0
CeilDiv(a, b) == IF a <= 0 THEN 0 ELSE (a + b - 1) \div b

\* np.arange(start, stop, step), step # 0
arange(start, stop, step) ==
    LET n == IF step > 0 THEN CeilDiv(stop - start, step)
                         ELSE CeilDiv(start - stop, -step)
    IN  [k \in 1..n |-> start + (k - 1) * step]

\* i, j = np.meshgrid(cols, rows); (j*d + i).ravel()
MeshRavel(cols, rows, d) ==
    LET nc == Len(cols)
    IN  [k \in 1..(Len(rows) * nc) |->
            rows[((k - 1) \div nc) + 1] * d + cols[((k - 1) % nc) + 1]]

\* s[:-n]  (python: s[:-0] is s[:0], the empty array)
DropLast(s, n) == IF n = 0 THEN <<>> ELSE SubSeq(s, 1, Len(s) - n)

\* s[n:]
DropFirst(s, n) == SubSeq(s, n + 1, Len(s))

\* s[::-1]
Reverse(s) == [k \in 1..Len(s) |-> s[Len(s) + 1 - k]]

Range(s) == {s[k] : k \in 1..Len(s)}

NoDup(s) == \A a, b \in 1..Len(s) : s[a] = s[b] => a = b

\* ------------------------------------------------------ FTSliceDecoder.__init__

Center(d) == (d \div 2) * d + (d \div 2)

\* mutant of Extra: the column starts one row early, at the center's row
ExtraFromCenterRow(d) == arange((d \div 2) * d, d * d, d)

Extra(d) == arange(((d \div 2) + 1) * d, d * d, d)

\* mutant of AllEval: the extra column concatenated first
AllEvalExtraFirst(d) == Extra(d) \o arange(0, Center(d) + 1, 1)

AllEval(d) == arange(0, Center(d) + 1, 1) \o Extra(d)

\* mutant of Top: only the last entry dropped
TopDropOne(d) == DropLast(MeshRavel(arange(1, d, 1), arange(1, (d \div 2) + 1, 1), d), 1)

Top(d) == DropLast(MeshRavel(arange(1, d, 1), arange(1, (d \div 2) + 1, 1), d), d \div 2)

\* mutant of BottomRev: the order not reversed
BottomNotReversed(d) == DropFirst(MeshRavel(arange(1, d, 1), arange(d \div 2, d, 1), d), d \div 2)

BottomRev(d) == Reverse(DropFirst(MeshRavel(arange(1, d, 1), arange(d \div 2, d, 1), d), d \div 2))

\* ------------------------------------------------------------ ResidLinearMLP

RECURSIVE Dot(_, _)
Dot(u, v) == IF Len(u) = 0 THEN 0 ELSE u[1] * v[1] + Dot(Tail(u), Tail(v))

\* nn.Linear: x W^T + b
Linear(l, x) == [j \in 1..Len(l.b) |-> Dot(l.W[j], x) + l.b[j]]

\* ResidLinear.forward: self.linear(x) + x
ResidLinear(l, x) == [j \in 1..Len(l.b) |-> Linear(l, x)[j] + x[j]]

\* nn.ReLU
ReLU(x) == [j \in 1..Len(x) |-> Max(x[j], 0)]

ApplyLayer(l, x) == IF l.resid THEN ResidLinear(l, x) ELSE Linear(l, x)

\* The weights a layer is created with: any values; here a small integer
\* family indexed by a seed and the layer's position.
InitWeights(nin, nout, seed, pos) ==
    [W |-> [j \in 1..nout |-> [i \in 1..nin |-> ((seed * (2 * j + 3 * i) + pos) % 5) - 2]],
     b |-> [j \in 1..nout |-> ((seed + j + pos) % 3) - 1]]

MakeLayer(nin, nout, seed, pos) ==
    [resid |-> (nin = nout)] @@ InitWeights(nin, nout, seed, pos)

\* ResidLinearMLP.__init__: the layers of self.main without the activations,
\* which forward applies after every layer but the last
ResidLinearMLP(in_dim, nlayers, hidden_dim, out_dim, seed) ==
    <<MakeLayer(in_dim, hidden_dim, seed, 0)>>
    \o [n \in 1..nlayers |-> MakeLayer(hidden_dim, hidden_dim, seed, n)]
    \o <<MakeLayer(hidden_dim, out_dim, seed, nlayers + 1)>>

\* ResidLinearMLP.forward: self.main(x)
\* (h \o <<>> is h as an explicit sequence, so that it is computed once)
RECURSIVE MLPForward(_, _)
MLPForward(layers, x) ==
    IF Len(layers) = 1 THEN ApplyLayer(layers[1], x)
    ELSE LET h == ReLU(ApplyLayer(layers[1], x))
         IN  MLPForward(Tail(layers), h \o <<>>)

\* --------------------------------------------------- FTSliceDecoder, tensors

\* -lattice[...,0:3] written into lattice[...,0:3]: the latent components stay
NegSpatial(p) == [k \in 1..Len(p) |-> IF k <= 3 THEN -p[k] ELSE p[k]]

\* v * torch.tensor([1.,-1.])
Conj(v) == <<v[1], -v[2]>>

\* t[..., idx, :] with an index array: a new tensor
Gather(t, idx) == [k \in 1..Len(idx) |-> t[idx[k] + 1]]

\* t[..., idx, :] = vals
Scatter(t, idx, vals) ==
    [p \in 1..Len(t) |->
        LET hits == {k \in 1..Len(idx) : idx[k] + 1 = p} IN
        IF hits = {} THEN t[p]
        ELSE vals[CHOOSE k \in hits : \A m \in hits : m <= k]]

\* mutant of decode: the imaginary component of the flipped points not negated
decode_noconj(buf) ==
    LET w == [i \in 1..Len(buf) |-> buf[i][3] > 0]
        neg == [i \in 1..Len(buf) |-> IF w[i] THEN NegSpatial(buf[i]) ELSE buf[i]]
    IN  [lattice |-> neg,
         result |-> [i \in 1..Len(buf) |-> MLPForward(decoder, neg[i])]]

\* mutant of decode: the coordinates negated in a clone of the argument
decode_clone(buf) ==
    LET w == [i \in 1..Len(buf) |-> buf[i][3] > 0]
        neg == [i \in 1..Len(buf) |-> IF w[i] THEN NegSpatial(buf[i]) ELSE buf[i]]
        res == [i \in 1..Len(buf) |-> MLPForward(decoder, neg[i])]
    IN  [lattice |-> buf,
         result |-> [i \in 1..Len(buf) |-> IF w[i] THEN Conj(res[i]) ELSE res[i]]]

\* FTSliceDecoder.decode, on the tensor (or view) it is handed.  lattice is that
\* tensor after the call, result the value returned.
decode(buf) ==
    LET w == [i \in 1..Len(buf) |-> buf[i][3] > 0]
        neg == [i \in 1..Len(buf) |-> IF w[i] THEN NegSpatial(buf[i]) ELSE buf[i]]
        res == [i \in 1..Len(buf) |-> MLPForward(decoder, neg[i])]
    IN  [lattice |-> neg,
         result |-> [i \in 1..Len(buf) |-> IF w[i] THEN Conj(res[i]) ELSE res[i]]]

\* torch.empty: pixels hold no defined value until written
Garbage == <<0, 0>>

\* mutant of forward: decode handed a view, its writes reaching the caller
forward_view(lat) ==
    LET d == decode(Gather(lat, all_eval))
        top_half == d.result
    IN  [ok |-> TRUE,
         image |-> Scatter(Scatter([p \in 1..Len(lat) |-> Garbage], all_eval, top_half),
                           bottom_rev,
                           [k \in 1..Len(top) |-> Conj(top_half[top[k] + 1])]),
         unwritten |-> (0..(Len(lat) - 1)) \ (Range(all_eval) \cup Range(bottom_rev)),
         lattice |-> Scatter(lat, all_eval, d.lattice)]

\* FTSliceDecoder.forward.  lattice is the caller's tensor after the call:
\* lattice[...,self.all_eval,:] is indexed by an array, so decode works on a
\* new tensor.  unwritten are the pixels of image left as torch.empty made
\* them; ok is FALSE when an assignment's shapes do not match (RuntimeError).
forward(lat) ==
    LET d == decode(Gather(lat, all_eval))
        top_half == d.result
        n == Len(lat)
        ok == /\ \A k \in 1..Len(all_eval) : all_eval[k] < n
              /\ \A k \in 1..Len(top) : top[k] < Len(top_half)
              /\ \A k \in 1..Len(bottom_rev) : bottom_rev[k] < n
              /\ Len(top) = Len(bottom_rev)
    IN  IF ~ok THEN [ok |-> FALSE, image |-> <<>>, unwritten |-> {}, lattice |-> lat]
        ELSE [ok |-> TRUE,
              image |-> Scatter(Scatter([p \in 1..n |-> Garbage], all_eval, top_half),
                                bottom_rev,
                                [k \in 1..Len(top) |-> Conj(top_half[top[k] + 1])]),
              unwritten |-> (0..(n - 1)) \ (Range(all_eval) \cup Range(bottom_rev)),
              lattice |-> lat]

\* FTSliceDecoder.forward_symmetric.  lattice[...,0:c+1,:] is a slice: a view
\* of the caller's tensor, which decode writes through.
forward_symmetric(lat, c) ==
    LET n == Len(lat)
        d == decode(SubSeq(lat, 1, c + 1))
        top_half == d.result
        mirror == Gather(top_half, arange(c - 1, -1, -1))
    IN  [ok |-> (n - (c + 1) = Len(mirror)),
         image |-> top_half \o [k \in 1..Len(mirror) |-> Conj(mirror[k])],
         unwritten |-> {},
         lattice |-> d.lattice \o SubSeq(lat, c + 2, n)]

\* ------------------------------------------------------- the decoder's caller

\* VAE.__init__: np.meshgrid of two np.linspace(-1, 1, n, endpoint=False),
\* stacked with a zero z
VAELattice(n) ==
    [p \in 1..(n * n) |-> <<((p - 1) % n) - (n \div 2), ((p - 1) \div n) - (n \div 2), 0>>]

\* x @ rot for one row x
RowTimes(x, rot) == [j \in 1..3 |-> x[1] * rot[1][j] + x[2] * rot[2][j] + x[3] * rot[3][j]]

\* HetOnlyVAE.cat_z: the latent code appended to every coordinate
cat_z(x, z) == [p \in 1..Len(x) |-> x[p] \o z]

\* The rotations the caller applies: the identity (the slice z = 0) and two
\* that tilt the slice so that half of its points have z > 0
Rotations ==
    { <<<<1, 0, 0>>, <<0, 1, 0>>, <<0, 0, 1>>>>,
      <<<<0, 0, 1>>, <<0, 1, 0>>, <<-1, 0, 0>>>>,
      <<<<1, 0, 0>>, <<0, 0, 1>>, <<0, -1, 0>>>> }

\* Directions of the 1D slices given to forward_symmetric
LineDirs == { <<1, 0, -1>>, <<0, 1, 1>> }

\* a line of 2c+1 points through the origin, the origin at index c
LineLattice(c, dir) == [p \in 1..(2 * c + 1) |-> [k \in 1..3 |-> (p - 1 - c) * dir[k]]]

\* in_dim of the two callers: VAE (3) and HetOnlyVAE (3 + z_dim, z_dim = 1)
InDims == {3, 4}

\* <<nlayers, hidden_dim>> of the decoder
Archs == { <<0, 2>>, <<1, 3>> }

\* the value of the latent code
Latents == {1, -2}

Latent(in_dim, z) == [k \in 1..(in_dim - 3) |-> z]

InitDec ==
    /\ pc = "new"
    /\ D = 0 /\ D2 = 0 /\ center = 0
    /\ extra = <<>> /\ all_eval = <<>> /\ top = <<>> /\ bottom_rev = <<>>
    /\ decoder = <<>> /\ lattice = <<>> /\ hist = <<>>

IdleDec ==
    /\ pc = "idle"
    /\ D = 0 /\ D2 = 0 /\ center = 0
    /\ extra = <<>> /\ all_eval = <<>> /\ top = <<>> /\ bottom_rev = <<>>
    /\ decoder = <<>> /\ lattice = <<>> /\ hist = <<>>

\* FTSliceDecoder.__init__(in_dim, D, nlayers, hidden_dim, activation), D even
Construct ==
    /\ pc = "new"
    /\ \E in_dim \in InDims, h \in 1..MaxD2, arch \in Archs, seed \in 1..NumSeeds :
        LET d == 2 * h IN
        /\ decoder' = ResidLinearMLP(in_dim, arch[1], arch[2], 2, seed)
        /\ D2' = d \div 2
        /\ center' = Center(d)
        /\ extra' = Extra(d)
        /\ all_eval' = AllEval(d)
        /\ top' = Top(d)
        /\ bottom_rev' = BottomRev(d)
        /\ D' = d
    /\ pc' = "constructed"
    /\ UNCHANGED <<lattice, hist>>

InDim == Len(decoder[1].W[1])

\* VAE.decode / HetOnlyVAE.decode: x = lattice @ rot, with the latent code
\* appended; the tensor the decoder is then called on
NewGrid ==
    /\ pc = "constructed"
    /\ \E rot \in Rotations, z \in Latents :
        lattice' = cat_z([p \in 1..(D * D) |-> RowTimes(VAELattice(D)[p], rot)],
                         Latent(InDim, z))
    /\ pc' = "ready"
    /\ UNCHANGED <<D, D2, center, extra, all_eval, top, bottom_rev, decoder, hist>>

\* a caller of forward_symmetric: a 1D slice of 2c+1 points
NewLine ==
    /\ pc = "constructed"
    /\ \E c \in 0..MaxC, dir \in LineDirs, z \in Latents :
        lattice' = cat_z(LineLattice(c, dir), Latent(InDim, z))
    /\ pc' = "ready"
    /\ UNCHANGED <<D, D2, center, extra, all_eval, top, bottom_rev, decoder, hist>>

Call(op, c, r) ==
    [op |-> op, c |-> c, pre |-> lattice, post |-> r.lattice,
     ok |-> r.ok, image |-> r.image, unwritten |-> r.unwritten]

\* image = self.decoder(x) on a D x D slice
Forward ==
    /\ pc = "ready"
    /\ Len(hist) < MaxCalls
    /\ Len(lattice) = D * D
    /\ LET r == forward(lattice) IN
        /\ lattice' = r.lattice
        /\ hist' = Append(hist, Call("forward", 0, r))
    /\ UNCHANGED <<pc, D, D2, center, extra, all_eval, top, bottom_rev, decoder>>

\* a direct call of self.decoder.decode(x)
Decode ==
    /\ pc = "ready"
    /\ Len(hist) < MaxCalls
    /\ LET d == decode(lattice)
           r == [ok |-> TRUE, image |-> d.result, unwritten |-> {}, lattice |-> d.lattice] IN
        /\ lattice' = r.lattice
        /\ hist' = Append(hist, Call("decode", 0, r))
    /\ UNCHANGED <<pc, D, D2, center, extra, all_eval, top, bottom_rev, decoder>>

\* self.decoder.forward_symmetric(x, c) on a slice of 2c+1 points
ForwardSymmetric ==
    /\ pc = "ready"
    /\ Len(hist) < MaxCalls
    /\ \E c \in 0..MaxC :
        /\ Len(lattice) = 2 * c + 1
        /\ LET r == forward_symmetric(lattice, c) IN
            /\ lattice' = r.lattice
            /\ hist' = Append(hist, Call("forward_symmetric", c, r))
    /\ UNCHANGED <<pc, D, D2, center, extra, all_eval, top, bottom_rev, decoder>>


\* ------------------------------------------------------ FTSliceDecoder.translate
\* Angles are counted in quarter turns, where cos and sin are integers: the
\* wavevectors are kept as 4 * coords and the shifts are whole pixels, so that
\* 2 * pi * (coords . t) is (4 * coords . t) quarter turns.

CosQ(k) == CASE k % 4 = 0 -> 1 [] k % 4 = 1 -> 0 [] k % 4 = 2 -> -1 [] OTHER -> 0

SinQ(k) == CASE k % 4 = 0 -> 0 [] k % 4 = 1 -> 1 [] k % 4 = 2 -> 0 [] OTHER -> -1

Neg(v) == [k \in 1..Len(v) |-> -v[k]]

\* mutant of translate: the sign of the sine term of the real component
translate_plus(co, im, t) ==
    [p \in 1..Len(im) |->
        LET tfilt == Dot(co[p], Neg(t)) * (-1)
            c == CosQ(tfilt)
            s == SinQ(tfilt)
        IN  <<im[p][1] * c + im[p][2] * s, im[p][1] * s + im[p][2] * c>>]

\* FTSliceDecoder.translate for one image and one shift:
\* tfilt = coords @ -t * -2 * np.pi
translate(co, im, t) ==
    [p \in 1..Len(im) |->
        LET tfilt == Dot(co[p], Neg(t)) * (-1)
            c == CosQ(tfilt)
            s == SinQ(tfilt)
        IN  <<im[p][1] * c - im[p][2] * s, im[p][1] * s + im[p][2] * c>>]

\* image sizes whose wavevectors self.lattice[:,0:2]/2 are whole quarters
TranslateSizes == {2, 4}

\* VAE.decode: coords = self.lattice[:,0:2]/2, times 4
TranslateCoords(n) ==
    [p \in 1..(n * n) |-> <<(4 * ((p - 1) % n)) \div n - 2, (4 * ((p - 1) \div n)) \div n - 2>>]

\* the images translated: a small family of integer images
ImagePixel(seed, p) == <<((seed * p) % 5) - 2, ((seed * p + (p \div 2) + 1) % 3) - 1>>

Shifts == {<<a, b>> : a \in (-MaxShift)..MaxShift, b \in (-MaxShift)..MaxShift}

IdleTr == tpc = "idle" /\ coords = <<>> /\ img0 = <<>> /\ img = <<>> /\ shifts = <<>>

InitTr ==
    /\ tpc = "start"
    /\ shifts = <<>>
    /\ \E n \in TranslateSizes, seed \in 1..NumSeeds :
        /\ coords = TranslateCoords(n)
        /\ img0 = [p \in 1..(n * n) |-> ImagePixel(seed, p)]
        /\ img = [p \in 1..(n * n) |-> ImagePixel(seed, p)]

\* y_hat = self.decoder.translate(coords, y_hat, t), applied to its own result
Translate ==
    /\ tpc \in {"start", "once"}
    /\ \E t \in Shifts :
        /\ img' = translate(coords, img, t)
        /\ shifts' = Append(shifts, t)
    /\ tpc' = IF tpc = "start" THEN "once" ELSE "twice"
    /\ UNCHANGED <<coords, img0>>

\* C8: translating by s1 and then by s2 gives the image that translating by
\* s1 + s2 gives, and translating by (0,0) gives the image back
C8_TranslateAdditive ==
    /\ tpc = "twice" =>
        img = translate(coords, img0, <<shifts[1][1] + shifts[2][1], shifts[1][2] + shifts[2][2]>>)
    /\ (tpc = "once" /\ shifts[1] = <<0, 0>>) => img = img0
    /\ (tpc = "twice" /\ shifts[2] = <<0, 0>>) => img = translate(coords, img0, shifts[1])

C8_Witness ==
    /\ tpc = "twice"
    /\ shifts[1] # <<0, 0>> /\ shifts[2] # <<0, 0>> /\ shifts[1] # shifts[2]
    /\ img # img0
    /\ img # translate(coords, img0, shifts[1])
    /\ \E p \in 1..Len(img) : img[p][1] # 0 /\ img[p][2] # 0

\* ---------------------------------------------------- SO3reparameterize.sampleSO3
\* A tensor is its shape, its entries in row-major order as numerators, and
\* their common denominator.  Tangent vectors are counted in quarter turns.

Tensor(shape, data, den) == [shape |-> shape, data |-> data, den |-> den]

Vec(v) == Tensor(<<Len(v)>>, v, 1)

\* lie_tools.quaternions_to_SO3: the rotation of the quaternion q = (w, x, y, z)
\* normalised, as numerators over |q|^2
quaternions_to_SO3(q) ==
    LET w == q[1]  x == q[2]  y == q[3]  z == q[4] IN
    Tensor(<<3, 3>>,
           << w*w + x*x - y*y - z*z, 2 * (x*y - w*z), 2 * (x*z + w*y),
              2 * (x*y + w*z), w*w - x*x + y*y - z*z, 2 * (y*z - w*x),
              2 * (x*z - w*y), 2 * (y*z + w*x), w*w - x*x - y*y + z*z >>,
           w*w + x*x + y*y + z*z)

Abs(a) == IF a < 0 THEN -a ELSE a

Sign(a) == IF a < 0 THEN -1 ELSE IF a > 0 THEN 1 ELSE 0

\* a @ b for 3x3 arrays in row-major order
MatMul3(a, b) ==
    [k \in 1..9 |->
        LET r == (k - 1) \div 3
            c == ((k - 1) % 3) + 1
        IN  a[3 * r + 1] * b[c] + a[3 * r + 2] * b[3 + c] + a[3 * r + 3] * b[6 + c]]

\* lie_tools.expmap, Rodrigues' formula I + sin(t) K + (1 - cos(t)) K^2, for a
\* tangent vector along one axis: t = |v| quarter turns, K the cross-product
\* matrix of v / |v|
expmap(v) ==
    LET t == Abs(v[1]) + Abs(v[2]) + Abs(v[3])
        u == [k \in 1..3 |-> Sign(v[k])]
        K == <<0, -u[3], u[2], u[3], 0, -u[1], -u[2], u[1], 0>>
        KK == MatMul3(K, K)
        I == <<1, 0, 0, 0, 1, 0, 0, 0, 1>>
    IN  Tensor(<<3, 3>>, [k \in 1..9 |-> I[k] + SinQ(t) * K[k] + (1 - CosQ(t)) * KK[k]], 1)

\* SO3reparameterize.sampleSO3(z_mu, z_std); eps is what torch.randn_like drew
sampleSO3(train, mu, std, eps) ==
    IF ~train THEN <<Vec(mu), Vec(std)>>
    ELSE LET w_eps == [k \in 1..3 |-> eps[k] * std[k]]
             rot_eps == expmap(w_eps)
             m == quaternions_to_SO3(mu)
         IN  <<Tensor(<<3, 3>>, MatMul3(m.data, rot_eps.data), m.den), Vec(w_eps)>>

\* z_mu: the four outputs of the regressor, not all zero
Quaternions == {q \in [1..4 -> (-MaxQ)..MaxQ] : \E k \in 1..4 : q[k] # 0}

\* z_std = exp(.5 * logvar): positive
Stds == [1..3 -> 1..MaxStd]

\* draws of torch.randn_like along one axis
EpsDraws ==
    {[k \in 1..3 |-> IF k = a THEN e ELSE 0] : a \in 1..3, e \in (-MaxEps)..MaxEps}

IdleSo == spc = "idle" /\ training = FALSE /\ z_mu = <<>> /\ z_std = <<>> /\ rot_out = <<>> /\ w_out = <<>>

InitSo ==
    /\ spc = "start"
    /\ training \in BOOLEAN
    /\ z_mu = <<>> /\ z_std = <<>> /\ rot_out = <<>> /\ w_out = <<>>

\* rot, w_eps = self.so3_encoder.sampleSO3(z_mu, z_std)
SampleSO3 ==
    /\ spc = "start"
    /\ \E mu \in Quaternions, std \in Stds, eps \in EpsDraws :
        LET r == sampleSO3(training, mu, std, eps) IN
        /\ z_mu' = mu
        /\ z_std' = std
        /\ rot_out' = r[1]
        /\ w_out' = r[2]
    /\ spc' = "sampled"
    /\ UNCHANGED training

\* C6: in evaluation mode sampleSO3 returns the rotation
\* quaternions_to_SO3(z_mu) and z_std unchanged
C6_EvalReturnsMeanRotation ==
    (spc = "sampled" /\ ~training) =>
        /\ rot_out = quaternions_to_SO3(z_mu)
        /\ w_out = Vec(z_std)

\* ------------------------------------------------ HetOnlyVAE, VAE, ConvEncoder

\* ConvEncoder.forward: x.view(-1,1,64,64)
ConvSize == 64

ImageSizes == {16, 32, 64, 128}

Modes == {"conv", "resid", "mlp", "tilt", "other"}

IdleCv == cpc = "idle" /\ cls = "" /\ encode_mode = "" /\ nx = 0 /\ batch = 0 /\ enc_rows = 0

InitCv == cpc = "new" /\ cls = "" /\ encode_mode = "" /\ nx = 0 /\ batch = 0 /\ enc_rows = 0

\* HetOnlyVAE.__init__: the encoder chosen by encode_mode
ConstructHetOnlyVAE ==
    /\ cpc = "new"
    /\ \E d \in ImageSizes, mode \in Modes :
        /\ cls' = "HetOnlyVAE"
        /\ nx' = d
        /\ encode_mode' = mode
        /\ cpc' = IF mode = "conv" THEN (IF d = ConvSize THEN "constructed" ELSE "error")
                  ELSE IF mode \in {"resid", "mlp", "tilt"} THEN "constructed"
                  ELSE "error"
    /\ UNCHANGED <<batch, enc_rows>>

\* VAE.__init__ with nx = ny
ConstructVAE ==
    /\ cpc = "new"
    /\ \E n \in ImageSizes, mode \in Modes, encode_layers \in 2..MaxEncodeLayers :
        /\ cls' = "VAE"
        /\ nx' = n
        /\ encode_mode' = mode
        /\ cpc' = IF ~(encode_layers > 2) THEN "error"
                  ELSE IF mode \in {"conv", "resid", "mlp"} THEN "constructed"
                  ELSE "error"
    /\ UNCHANGED <<batch, enc_rows>>

\* ConvEncoder.forward on x of numel elements: the rows of x.view(-1,1,64,64),
\* or -1 when view raises because numel is no multiple of 64*64
ConvRows(numel) ==
    IF numel % (ConvSize * ConvSize) = 0 THEN numel \div (ConvSize * ConvSize) ELSE -1

\* HetOnlyVAE.encode / VAE.encode on a batch of b images of nx x nx pixels
Encode ==
    /\ cpc = "constructed"
    /\ \E b \in 1..MaxBatch :
        LET rows == IF encode_mode = "conv" THEN ConvRows(b * nx * nx) ELSE b IN
        /\ batch' = b
        /\ enc_rows' = rows
        /\ cpc' = IF rows < 0 THEN "error" ELSE "encoded"
    /\ UNCHANGED <<cls, encode_mode, nx>>

\* C9: a model with the convolutional encoder and images that are not 64x64
\* has failed by its first use, and never encodes them as another number of
\* 64x64 images
C9_ConvFailsFast ==
    (cpc = "encoded" /\ encode_mode = "conv") => (nx = ConvSize /\ enc_rows = batch)

\* C9 holds of HetOnlyVAE, whose constructor asserts the size
C9_HetOnlyVAEFailsFast ==
    (cls = "HetOnlyVAE" /\ encode_mode = "conv" /\ nx # ConvSize) => cpc = "error"

\* ------------------------------------------------------------ specifications

Init == InitDec /\ IdleTr /\ IdleSo /\ IdleCv

Next ==
    \/ Construct /\ UNCHANGED <<trVars, soVars, cvVars>>
    \/ NewGrid /\ UNCHANGED <<trVars, soVars, cvVars>>
    \/ NewLine /\ UNCHANGED <<trVars, soVars, cvVars>>
    \/ Forward /\ UNCHANGED <<trVars, soVars, cvVars>>
    \/ Decode /\ UNCHANGED <<trVars, soVars, cvVars>>
    \/ ForwardSymmetric /\ UNCHANGED <<trVars, soVars, cvVars>>

Spec == Init /\ [][Next]_vars

InitTranslate == IdleDec /\ InitTr /\ IdleSo /\ IdleCv

NextTranslate == Translate /\ UNCHANGED <<decVars, soVars, cvVars>>

SpecTranslate == InitTranslate /\ [][NextTranslate]_vars

InitSO3 == IdleDec /\ IdleTr /\ InitSo /\ IdleCv

NextSO3 == SampleSO3 /\ UNCHANGED <<decVars, trVars, cvVars>>

SpecSO3 == InitSO3 /\ [][NextSO3]_vars

InitConv == IdleDec /\ IdleTr /\ IdleSo /\ InitCv

NextConv ==
    \/ ConstructHetOnlyVAE /\ UNCHANGED <<decVars, trVars, soVars>>
    \/ ConstructVAE /\ UNCHANGED <<decVars, trVars, soVars>>
    \/ Encode /\ UNCHANGED <<decVars, trVars, soVars>>

SpecConv == InitConv /\ [][NextConv]_vars

\* -------------------------------------------------------------- the decoder's claims

Constructed == pc \in {"constructed", "ready"}

Calls == 1..Len(hist)

\* the positions of the argument that a call evaluates
Evaluated(k) ==
    IF hist[k].op = "decode" THEN 1..Len(hist[k].pre)
    ELSE IF hist[k].op = "forward_symmetric" THEN 1..(hist[k].c + 1)
    ELSE {all_eval[i] + 1 : i \in 1..Len(all_eval)}

\* C1: in the image forward returns, pixel bottom_rev[i] holds (real, -imag) of
\* pixel top[i], and position top[i] of the evaluated block is pixel top[i]
C1_ConjugateMirror ==
    \A k \in Calls : hist[k].op = "forward" =>
        /\ hist[k].ok
        /\ \A i \in 1..Len(top) :
            /\ all_eval[top[i] + 1] = top[i]
            /\ hist[k].image[bottom_rev[i] + 1] = Conj(hist[k].image[top[i] + 1])

C1_Witness ==
    \E k \in Calls :
        /\ hist[k].op = "forward"
        /\ \E i \in 1..Len(top) :
            /\ hist[k].pre[top[i] + 1][3] > 0
            /\ hist[k].image[top[i] + 1][2] # 0

\* C2: all_eval and bottom_rev partition the pixels 0..D*D-1 without
\* duplicates, and forward leaves no pixel of its image unwritten
C2_IndexPartition ==
    /\ Constructed =>
        /\ Range(all_eval) \cup Range(bottom_rev) = 0..(D * D - 1)
        /\ Range(all_eval) \cap Range(bottom_rev) = {}
        /\ NoDup(all_eval) /\ NoDup(bottom_rev)
        /\ Len(all_eval) + Len(bottom_rev) = D * D
    /\ \A k \in Calls : hist[k].op = "forward" =>
        hist[k].ok /\ hist[k].unwritten = {} /\ Len(hist[k].image) = D * D

C2_Witness ==
    \E k \in Calls : hist[k].op = "forward" /\ D >= 4 /\ Len(extra) > 0 /\ Len(bottom_rev) > 0

\* C3: top and bottom_rev have the same length and bottom_rev[k] is the
\* reflection of top[k] through the center pixel
C3_PointReflection ==
    Constructed =>
        /\ Len(top) = Len(bottom_rev)
        /\ \A k \in 1..Len(top) :
            /\ top[k] + bottom_rev[k] = 2 * center
            /\ bottom_rev[k] = (D - (top[k] \div D)) * D + (D - (top[k] % D))

C3_Witness == Constructed /\ D >= 6 /\ Len(top) > D

\* C4 as stated: for D = 8 top and bottom_rev hold 27 indices each, none twice
C4_Len27 ==
    (Constructed /\ D = 8) =>
        /\ Len(top) = 27 /\ Len(bottom_rev) = 27
        /\ NoDup(top) /\ NoDup(bottom_rev)

\* C4 amended: for D = 8 top and bottom_rev hold 24 indices each, none twice
C4_Len24 ==
    (Constructed /\ D = 8) =>
        /\ Len(top) = 24 /\ Len(bottom_rev) = 24
        /\ NoDup(top) /\ NoDup(bottom_rev)

C4_Witness == Constructed /\ D = 8 /\ Len(top) > 0

\* C5: decode of a point with z > 0 is (real, -imag) of decode of the point
\* with its spatial coordinates negated; with z <= 0 it is f of the point
C5_NegationConsistency ==
    \A k \in Calls : hist[k].op = "decode" =>
        \A i \in 1..Len(hist[k].pre) :
            LET p == hist[k].pre[i] IN
            IF p[3] > 0
            THEN hist[k].image[i] = Conj(decode(<<NegSpatial(p)>>).result[1])
            ELSE hist[k].image[i] = MLPForward(decoder, p)

C5_Witness ==
    \E k \in Calls :
        /\ hist[k].op = "decode"
        /\ \E i, j \in 1..Len(hist[k].pre) :
            /\ hist[k].pre[i][3] > 0 /\ hist[k].image[i][2] # 0
            /\ hist[k].pre[j][3] < 0

\* C7: forward leaves the caller's lattice as it was, and two successive
\* calls of forward return the same image
C7_ForwardRepeatable ==
    \A k \in Calls : hist[k].op = "forward" =>
        /\ hist[k].post = hist[k].pre
        /\ (k + 1 \in Calls /\ hist[k + 1].op = "forward") =>
            hist[k + 1].image = hist[k].image

C7_Witness ==
    /\ Len(hist) >= 2
    /\ hist[1].op = "forward" /\ hist[2].op = "forward"
    /\ \E i \in 1..Len(all_eval) :
        /\ hist[1].pre[all_eval[i] + 1][3] > 0
        /\ hist[1].image[all_eval[i] + 1][2] # 0

\* C10: decode and forward_symmetric negate, in the caller's buffer, the
\* spatial coordinates of exactly the evaluated points with z > 0; a second
\* identical call meets no z > 0 and returns the opposite imaginary component
\* for the points the first call flipped
C10_InPlaceFlip ==
    \A k \in Calls : hist[k].op \in {"decode", "forward_symmetric"} =>
        /\ Len(hist[k].post) = Len(hist[k].pre)
        /\ \A i \in 1..Len(hist[k].pre) :
            LET p == hist[k].pre[i]
                q == hist[k].post[i] IN
            IF i \in Evaluated(k) /\ p[3] > 0
            THEN /\ Len(q) = Len(p)
                 /\ \A m \in 1..Len(p) : q[m] = IF m <= 3 THEN -p[m] ELSE p[m]
            ELSE q = p
        /\ (k + 1 \in Calls /\ hist[k + 1].op = hist[k].op /\ hist[k + 1].c = hist[k].c) =>
            \A i \in Evaluated(k) :
                /\ hist[k + 1].pre[i][3] <= 0
                /\ hist[k].pre[i][3] > 0 =>
                    /\ hist[k + 1].image[i][2] = -hist[k].image[i][2]
                    /\ hist[k + 1].image[i][1] = hist[k].image[i][1]

C10_WitnessOp(op) ==
    /\ Len(hist) >= 2
    /\ hist[1].op = op /\ hist[2].op = op /\ hist[2].c = hist[1].c
    /\ \E i \in Evaluated(1) :
        /\ hist[1].pre[i][3] > 0
        /\ Len(hist[1].pre[i]) > 3
        /\ hist[1].image[i][2] # 0

C10_Witness == C10_WitnessOp("decode")

\* the same case through forward_symmetric, with points left unevaluated
C10_WitnessSymmetric ==
    /\ C10_WitnessOp("forward_symmetric")
    /\ \E i \in 1..Len(hist[1].pre) : i \notin Evaluated(1)

\* forward_symmetric leaves alone the points with z > 0 that it does not evaluate
C10_WitnessUnevaluated ==
    \E k \in Calls :
        /\ hist[k].op = "forward_symmetric"
        /\ \E i \in 1..Len(hist[k].pre) : i \notin Evaluated(k) /\ hist[k].pre[i][3] > 0

====
